---- MODULE Spec2Model ----
(***************************************************************************)
(* Model of popupdata_cleaning.py: the encoding fallback chain, the        *)
(* diacritic normaliser, the date parser, the ISO validation and the       *)
(* export of main(), together with the pure functions remove_diacritics    *)
(* and parse_date_ddmmy checked on bounded input sets.                     *)
(*                                                                         *)
(* A text is a sequence of characters; a character is a one-token string   *)
(* ("a", "0", "/", " ", "E_ACUTE", ...).  A Python value is a record       *)
(* [tag, s, n]: tag "str" carries the text s, tag "int" the number n,      *)
(* tag "nan" is the float NaN pandas uses for a blank cell, tag "none" is  *)
(* Python's None.                                                          *)
(***************************************************************************)
EXTENDS Integers, Sequences, FiniteSets, TLC

\* ------------------------------------------------------------------------
\* Bounds of the model
\* ------------------------------------------------------------------------

\* longest text fed to remove_diacritics in SpecNorm
MaxLen == 3

\* most data rows of the input file in Spec
MaxRows == 2

\* ------------------------------------------------------------------------
\* Python values
\* ------------------------------------------------------------------------

Str(x) == [tag |-> "str", s |-> x, n |-> 0]

PyInt(k) == [tag |-> "int", s |-> <<>>, n |-> k]

NaN == [tag |-> "nan", s |-> <<>>, n |-> 0]

PyNone == [tag |-> "none", s |-> <<>>, n |-> 0]

isinstance_str(v) == v.tag = "str"

\* ------------------------------------------------------------------------
\* Characters: the part of the Unicode database the texts of the model use
\* ------------------------------------------------------------------------

\* unicodedata.normalize("NFKD", c) of one character: its full compatibility
\* decomposition.  The texts of the model hold one kind of combining mark, so
\* the canonical reordering of marks that NFKD also performs is the identity.
Decomp(c) ==
    CASE c = "E_ACUTE" -> <<"E", "COMBINING_ACUTE">>
      [] c = "NBSP" -> <<" ">>
      [] c = "FI_LIGATURE" -> <<"f", "i">>
      [] c = "DIAERESIS" -> <<" ", "COMBINING_DIAERESIS">>
      [] OTHER -> <<c>>

\* unicodedata.combining(c): the canonical combining class, 0 for a character
\* that is not a reordering mark (ENCLOSING_CIRCLE, U+20DD, is a mark of
\* general category Me whose class is 0).
combining(c) ==
    CASE c = "COMBINING_ACUTE" -> 230
      [] c = "COMBINING_DIAERESIS" -> 230
      [] OTHER -> 0

\* str.isspace(): what str.split() and str.strip() treat as whitespace
isspace(c) == c \in {" ", "TAB", "NBSP", "NEWLINE"}

RECURSIVE NFKD(_)
NFKD(t) == IF t = <<>> THEN <<>> ELSE Decomp(Head(t)) \o NFKD(Tail(t))

RECURSIVE drop_combining(_)
drop_combining(t) ==
    IF t = <<>> THEN <<>>
    ELSE IF combining(Head(t)) # 0 THEN drop_combining(Tail(t))
    ELSE <<Head(t)>> \o drop_combining(Tail(t))

\* str.split() with no argument: the maximal runs of non-whitespace characters
RECURSIVE split_acc(_, _)
split_acc(t, cur) ==
    IF t = <<>> THEN (IF cur = <<>> THEN <<>> ELSE <<cur>>)
    ELSE IF isspace(Head(t))
         THEN (IF cur = <<>> THEN <<>> ELSE <<cur>>) \o split_acc(Tail(t), <<>>)
         ELSE split_acc(Tail(t), Append(cur, Head(t)))

split(t) == split_acc(t, <<>>)

\* " ".join(words)
RECURSIVE join_space(_)
join_space(ws) ==
    IF ws = <<>> THEN <<>>
    ELSE IF Len(ws) = 1 THEN Head(ws)
    ELSE Head(ws) \o <<" ">> \o join_space(Tail(ws))

\* a slip that would keep the accents: the combining() filter left out
remove_diacritics_keep_marks(text) ==
    IF isinstance_str(text)
    THEN Str(join_space(split(NFKD(text.s))))
    ELSE text

remove_diacritics(text) ==
    IF isinstance_str(text)
    THEN Str(join_space(split(drop_combining(NFKD(text.s)))))
    ELSE text

\* str.strip()
RECURSIVE lstrip(_)
lstrip(t) == IF t # <<>> /\ isspace(Head(t)) THEN lstrip(Tail(t)) ELSE t

RECURSIVE rstrip(_)
rstrip(t) ==
    IF t # <<>> /\ isspace(t[Len(t)]) THEN rstrip(SubSeq(t, 1, Len(t) - 1)) ELSE t

strip(t) == rstrip(lstrip(t))

\* ------------------------------------------------------------------------
\* Dates
\* ------------------------------------------------------------------------

Digits == <<"0", "1", "2", "3", "4", "5", "6", "7", "8", "9">>

isdigit(c) == \E i \in 1..10 : Digits[i] = c

DigitVal(c) == (CHOOSE i \in 1..10 : Digits[i] = c) - 1

all_digits(t) == \A i \in 1..Len(t) : isdigit(t[i])

\* int(t) of a text of digits
RECURSIVE int_of(_)
int_of(t) ==
    IF t = <<>> THEN 0
    ELSE 10 * int_of(SubSeq(t, 1, Len(t) - 1)) + DigitVal(t[Len(t)])

\* a datetime.date, and the absent date (None, or pandas' NaT)
Date(y, m, d) == [y |-> y, m |-> m, d |-> d]

NoDate == [y |-> 0, m |-> 0, d |-> 0]

is_leap(y) == (y % 4 = 0) /\ ((y % 100 # 0) \/ (y % 400 = 0))

days_in_month(y, m) ==
    IF m = 2 THEN (IF is_leap(y) THEN 29 ELSE 28)
    ELSE IF m \in {4, 6, 9, 11} THEN 30 ELSE 31

\* what the datetime constructor accepts
valid_date(y, m, d) ==
    /\ y >= 1 /\ y <= 9999
    /\ m >= 1 /\ m <= 12
    /\ d >= 1 /\ d <= days_in_month(y, m)

\* the pieces of t between the "/" characters
RECURSIVE slash_fields(_, _)
slash_fields(t, cur) ==
    IF t = <<>> THEN <<cur>>
    ELSE IF Head(t) = "/" THEN <<cur>> \o slash_fields(Tail(t), <<>>)
    ELSE slash_fields(Tail(t), Append(cur, Head(t)))

\* strptime's %d: 3[0-1] | [1-2]\d | 0[1-9] | [1-9] | " "[1-9]
match_day(t) ==
    \/ Len(t) = 2 /\ t[1] = "3" /\ t[2] \in {"0", "1"}
    \/ Len(t) = 2 /\ t[1] \in {"1", "2"} /\ isdigit(t[2])
    \/ Len(t) = 2 /\ t[1] \in {"0", " "} /\ isdigit(t[2]) /\ t[2] # "0"
    \/ Len(t) = 1 /\ isdigit(t[1]) /\ t[1] # "0"

\* strptime's %m: 1[0-2] | 0[1-9] | [1-9]
match_month(t) ==
    \/ Len(t) = 2 /\ t[1] = "1" /\ t[2] \in {"0", "1", "2"}
    \/ Len(t) = 2 /\ t[1] = "0" /\ isdigit(t[2]) /\ t[2] # "0"
    \/ Len(t) = 1 /\ isdigit(t[1]) /\ t[1] # "0"

day_value(t) == IF t[1] = " " THEN DigitVal(t[2]) ELSE int_of(t)

\* strptime turns a two-digit year into 1969..2068
year_of_yy(n) == IF n < 69 THEN 2000 + n ELSE 1900 + n

\* datetime.strptime(s, fmt).date() for fmt "%d/%m/%y" (ydigits = 2) and
\* "%d/%m/%Y" (ydigits = 4); NoDate stands for the ValueError it raises when
\* the text does not match, when text remains after the match, or when the
\* numbers are no calendar date.
strptime(t, ydigits) ==
    LET f == slash_fields(t, <<>>) IN
    IF /\ Len(f) = 3
       /\ match_day(f[1])
       /\ match_month(f[2])
       /\ Len(f[3]) = ydigits
       /\ all_digits(f[3])
    THEN LET d == day_value(f[1])
             m == int_of(f[2])
             y == IF ydigits = 2 THEN year_of_yy(int_of(f[3])) ELSE int_of(f[3])
         IN IF valid_date(y, m, d) THEN Date(y, m, d) ELSE NoDate
    ELSE NoDate

\* the decimal digits of n, at least width of them
RECURSIVE zfill(_, _)
zfill(n, width) ==
    IF width <= 1 /\ n < 10 THEN <<Digits[n + 1]>>
    ELSE Append(zfill(n \div 10, width - 1), Digits[(n % 10) + 1])

\* a slip that would drop the zero padding ("2024-3-5")
isoformat_unpadded(d) ==
    zfill(d.y, 1) \o <<"-">> \o zfill(d.m, 1) \o <<"-">> \o zfill(d.d, 1)

\* date.isoformat(): "%04d-%02d-%02d"
isoformat(d) ==
    zfill(d.y, 4) \o <<"-">> \o zfill(d.m, 2) \o <<"-">> \o zfill(d.d, 2)

\* ISO_RE.match(t) for ISO_RE = ^\d{4}-\d{2}-\d{2}$ : in Python "$" also
\* matches just before a newline that ends the text
ISO_RE_match(t) ==
    /\ Len(t) \in {10, 11}
    /\ \A i \in {1, 2, 3, 4, 6, 7, 9, 10} : isdigit(t[i])
    /\ t[5] = "-" /\ t[8] = "-"
    /\ Len(t) = 11 => t[11] = "NEWLINE"

\* str(v) of a cell value
str(v) ==
    CASE v.tag = "str" -> v.s
      [] v.tag = "nan" -> <<"n", "a", "n">>
      [] v.tag = "none" -> <<"N", "o", "n", "e">>
      [] v.tag = "int" -> zfill(v.n, 1)

\* str.lower(), on the letters the texts of the model use
lower_char(c) ==
    CASE c = "N" -> "n"
      [] c = "A" -> "a"
      [] c = "O" -> "o"
      [] c = "E" -> "e"
      [] c = "U" -> "u"
      [] c = "L" -> "l"
      [] OTHER -> c

lower(t) == [i \in 1..Len(t) |-> lower_char(t[i])]

Sentinels == {<<"n", "a", "n">>, <<"n", "o", "n", "e">>, <<"n", "u", "l", "l">>}

\* ------------------------------------------------------------------------
\* parse_date_ddmmy
\* ------------------------------------------------------------------------

FMT_YY == "%d/%m/%y"

FMT_YYYY == "%d/%m/%Y"

Absent(tried, fallback) == [result |-> NoDate, tried |-> tried, fallback |-> fallback]

\* a slip that would send the blank markers on to the parsers: the test of
\* line 48 reduced to the empty text
parse_trace_no_sentinels(v, tol) ==
    IF v.tag = "none" THEN Absent(<<>>, FALSE)
    ELSE LET s == strip(str(v)) IN
         IF s = <<>> THEN Absent(<<>>, FALSE)
         ELSE IF strptime(s, 2) # NoDate
              THEN [result |-> strptime(s, 2), tried |-> <<FMT_YY>>, fallback |-> FALSE]
         ELSE IF strptime(s, 4) # NoDate
              THEN [result |-> strptime(s, 4), tried |-> <<FMT_YY, FMT_YYYY>>,
                    fallback |-> FALSE]
         ELSE [result |-> tol, tried |-> <<FMT_YY, FMT_YYYY>>, fallback |-> TRUE]

\* parse_date_ddmmy(v), with what it did on the way: the formats it handed to
\* strptime, in order, and whether it called the tolerant parser.  tol is what
\* pd.to_datetime(s, dayfirst=True, errors="coerce") answers for the stripped
\* text (a date, or NoDate for NaT); pandas is not part of the program, so its
\* answer is an input.
parse_trace(v, tol) ==
    IF v.tag = "none" THEN Absent(<<>>, FALSE)
    ELSE LET s == strip(str(v)) IN
         IF s = <<>> \/ lower(s) \in Sentinels THEN Absent(<<>>, FALSE)
         ELSE IF strptime(s, 2) # NoDate
              THEN [result |-> strptime(s, 2), tried |-> <<FMT_YY>>, fallback |-> FALSE]
         ELSE IF strptime(s, 4) # NoDate
              THEN [result |-> strptime(s, 4), tried |-> <<FMT_YY, FMT_YYYY>>,
                    fallback |-> FALSE]
         ELSE [result |-> tol, tried |-> <<FMT_YY, FMT_YYYY>>, fallback |-> TRUE]

parse_date_ddmmy(v, tol) == parse_trace(v, tol).result

\* d.isoformat() if d else ""
render_iso(d) == IF d # NoDate THEN isoformat(d) ELSE <<>>

\* ------------------------------------------------------------------------
\* Inputs of the pure functions
\* ------------------------------------------------------------------------

UChars ==
    {"a", "E_ACUTE", "COMBINING_ACUTE", " ", "TAB", "NBSP", "FI_LIGATURE",
     "DIAERESIS", "ENCLOSING_CIRCLE"}

Texts(chars, maxlen) == UNION {[1..k -> chars] : k \in 0..maxlen}

NormInputs == {Str(t) : t \in Texts(UChars, MaxLen)} \cup {NaN, PyNone, PyInt(7)}

DayTokens == {<<"0", "5">>, <<"5">>, <<"3", "1">>, <<"2", "9">>, <<"3", "2">>, <<"0", "0">>}

MonthTokens == {<<"0", "3">>, <<"3">>, <<"0", "2">>, <<"1", "3">>}

YearTokens ==
    {<<"2", "4">>, <<"2", "0", "2", "4">>, <<"6", "9">>, <<"2", "0", "2", "3">>,
     <<"0", "0", "0", "0">>, <<"2", "0", "2">>}

Separators == {"/", "-"}

DateBodies ==
    {d \o <<sep>> \o m \o <<sep>> \o y :
        d \in DayTokens, m \in MonthTokens, y \in YearTokens, sep \in Separators}

WordBodies ==
    {<<>>, <<"n", "a", "n">>, <<"N", "a", "N">>, <<"N", "o", "n", "e">>,
     <<"N", "U", "L", "L">>, <<"n", "u", "l", "l">>, <<"x">>, <<"n", "a">>}

Paddings == {<<>>, <<" ">>}

ParseInputs ==
    {Str(l \o b \o r) : l \in Paddings, b \in DateBodies \cup WordBodies, r \in Paddings}
        \cup {NaN, PyNone, PyInt(7)}

\* what the tolerant parser may answer
TolerantAnswers == {NoDate, Date(2024, 3, 5), Date(2024, 5, 3)}

\* ------------------------------------------------------------------------
\* Tables (pandas DataFrames): the column names in order, and each column's
\* cells in row order
\* ------------------------------------------------------------------------

Range(f) == {f[i] : i \in DOMAIN f}

\* df is None
NoTable == [cols |-> <<>>, data |-> [c \in {} |-> <<>>]]

n_rows(t) == IF t.cols = <<>> THEN 0 ELSE Len(t.data[t.cols[1]])

\* df[name] = values: a column of that name is overwritten in place, a new
\* name is appended after the last column
set_col(t, name, values) ==
    [cols |-> IF name \in Range(t.cols) THEN t.cols ELSE Append(t.cols, name),
     data |-> [c \in Range(t.cols) \cup {name} |->
                  IF c = name THEN values ELSE t.data[c]]]

\* series.apply(remove_diacritics)
apply_remove_diacritics(series) ==
    [k \in 1..Len(series) |-> remove_diacritics(series[k])]

\* read_csv gives a column the dtype object when it holds text
is_object_col(t, c) == \E k \in 1..Len(t.data[c]) : isinstance_str(t.data[c][k])

\* a slip that would rebuild the frame from the text columns only
normalize_text_drop_others(t) ==
    [cols |-> SelectSeq(t.cols, LAMBDA c : is_object_col(t, c)),
     data |-> [c \in {x \in Range(t.cols) : is_object_col(t, x)} |->
                  apply_remove_diacritics(t.data[c])]]

\* lines 89-92: every object column replaced by its normalised cells
normalize_text(t) ==
    [cols |-> t.cols,
     data |-> [c \in Range(t.cols) |->
                  IF is_object_col(t, c)
                  THEN apply_remove_diacritics(t.data[c])
                  ELSE t.data[c]]]

\* the texts of a series that parse_date_ddmmy hands to the tolerant parser
fallback_texts(series) ==
    {strip(str(series[k])) : k \in {j \in 1..Len(series) :
                                      parse_trace(series[j], NoDate).fallback}}

\* df[col].apply(parse_date_ddmmy), the tolerant parser answering tol[text]
parse_column(series, tol) ==
    [k \in 1..Len(series) |->
        LET s == strip(str(series[k])) IN
        parse_date_ddmmy(series[k], IF s \in DOMAIN tol THEN tol[s] ELSE NoDate)]

\* a slip that would leave the rows without a date out of the new column
iso_column_skip_absent(parsed) ==
    LET kept == SelectSeq(parsed, LAMBDA d : d # NoDate)
    IN [k \in 1..Len(kept) |-> Str(isoformat(kept[k]))]

\* [d.isoformat() if d else "" for d in parsed]
iso_column(parsed) == [k \in 1..Len(parsed) |-> Str(render_iso(parsed[k]))]

\* sum(1 for d, raw in zip(parsed, df[col]) if d is None and str(raw).strip() != "")
unparsable_count(parsed, raw) ==
    Cardinality({k \in 1..Len(parsed) :
                    parsed[k] = NoDate /\ strip(str(raw[k])) # <<>>})

\* whether df[col].str of lines 110-111 raises: a column assigned from an empty
\* list (a table without rows) gets the dtype float64 or object depending on
\* the pandas build, and .str refuses a float64 column
str_accessor_may_fail(t) == IF n_rows(t) = 0 THEN {TRUE, FALSE} ELSE {FALSE}

\* the rows of df.loc[(df[col] != "") & (~df[col].str.match(ISO_RE))]
bad_iso_rows(t, col) ==
    {k \in 1..n_rows(t) :
        t.data[col][k] # Str(<<>>) /\ ~ISO_RE_match(t.data[col][k].s)}

\* ------------------------------------------------------------------------
\* main(): state
\* ------------------------------------------------------------------------

VARIABLES
    pc,               \* where main() stands
    exists,           \* os.path.exists(INPUT_CSV)
    enc_guess,        \* what chardet answers for the file (NoneEnc: no guess)
    decodable,        \* the encodings under which read_csv parses the file
    file,             \* the table read_csv yields when it parses the file
    i,                \* position of the loop of line 71 in its candidate list
    attempts,         \* history: the encoding of every read_csv call, in order
    errs,             \* history: every exception caught, in order
    last_err,         \* main's last_err
    df,               \* main's df
    loaded,           \* history: df as read_csv returned it
    start_parsed,     \* main's start_parsed
    end_parsed,       \* main's end_parsed
    unparsable_start, \* main's unparsable_start
    unparsable_end,   \* main's unparsable_end
    raised,           \* the exception main() ended with
    out_file,         \* the content of OUTPUT_CSV (NoTable: not written)
    n_pc, n_in, n_out, n_out2,         \* remove_diacritics applied once, twice
    p_pc, p_in, p_tol, p_out, p_iso    \* parse_date_ddmmy applied, then rendered

main_vars ==
    <<pc, exists, enc_guess, decodable, file, i, attempts, errs, last_err, df,
      loaded, start_parsed, end_parsed, unparsable_start, unparsable_end,
      raised, out_file>>

norm_vars == <<n_pc, n_in, n_out, n_out2>>

parse_vars == <<p_pc, p_in, p_tol, p_out, p_iso>>

vars == <<main_vars, norm_vars, parse_vars>>

NoneEnc == "<None>"

DEFAULT == "default"

NoErr == [kind |-> "none", enc |-> "", at |-> 0, missing |-> <<>>]

FileNotFoundError == [kind |-> "FileNotFoundError", enc |-> "", at |-> 0, missing |-> <<>>]

\* the exception of the at-th read_csv call, made with encoding enc
ReadError(enc, at) == [kind |-> "ReadError", enc |-> enc, at |-> at, missing |-> <<>>]

\* KeyError(f"Missing required column(s): {missing}") of line 98
MissingColumnError(missing) ==
    [kind |-> "KeyError", enc |-> "", at |-> 0, missing |-> missing]

\* the KeyError of df.loc[rows, [...]] when a listed column is not in df
NotInIndexError(missing) ==
    [kind |-> "KeyError: not in index", enc |-> "", at |-> 0, missing |-> missing]

ISOCheckError == [kind |-> "ValueError", enc |-> "", at |-> 0, missing |-> <<>>]

\* the AttributeError of Series.str on a column that is not of dtype object
StrAccessorError == [kind |-> "AttributeError", enc |-> "", at |-> 0, missing |-> <<>>]

\* ------------------------------------------------------------------------
\* main(): inputs
\* ------------------------------------------------------------------------

FixedEncodings == <<"utf-8-sig", "utf-8", "latin1", "windows-1252">>

\* chardet's answers: none, one that is in the fixed list, one that is not
Guesses == {NoneEnc, "utf-8", "ascii"}

Headers ==
    {<<"event_id", "brand", "start_date", "end_date">>,
     <<"event_id", "brand", "start_date">>,
     <<"event_id", "brand", "end_date">>,
     <<"event_id", "brand">>,
     <<"event_id", "start_date_iso", "start_date", "end_date">>,
     <<"brand", "start_date", "end_date">>}

T_050324 == <<"0", "5", "/", "0", "3", "/", "2", "4">>

T_05032024 == <<"0", "5", "/", "0", "3", "/", "2", "0", "2", "4">>

T_ISO == <<"2", "0", "2", "4", "-", "0", "3", "-", "0", "5">>

\* the rows a file is made of: a row gives a cell for every column name a
\* header may hold.  A blank CSV field is read as NaN.
RowSamples ==
    {[event_id |-> PyInt(1), brand |-> Str(<<"E_ACUTE", "a">>),
      start_date |-> Str(T_050324), end_date |-> Str(T_05032024),
      start_date_iso |-> Str(<<"x">>)],
     [event_id |-> PyInt(2), brand |-> Str(<<"a">>),
      start_date |-> NaN, end_date |-> Str(<<" ">>),
      start_date_iso |-> NaN],
     [event_id |-> PyInt(3), brand |-> NaN,
      start_date |-> Str(<<"x">>), end_date |-> Str(T_ISO),
      start_date_iso |-> Str(T_ISO)],
     [event_id |-> PyInt(4), brand |-> Str(<<"a", " ", " ", "a">>),
      start_date |-> Str(T_050324 \o <<" ">>), end_date |-> NaN,
      start_date_iso |-> Str(<<"n", "a">>)]}

table_of(header, rows) ==
    [cols |-> header,
     data |-> [c \in Range(header) |-> [k \in 1..Len(rows) |-> rows[k][c]]]]

Files ==
    {table_of(h, rows) :
        h \in Headers, rows \in UNION {[1..n -> RowSamples] : n \in 0..MaxRows}}

\* what the tolerant parser answers in main()
MainTolerantAnswers == {NoDate, Date(2024, 3, 5)}

\* ------------------------------------------------------------------------
\* main(): steps
\* ------------------------------------------------------------------------

NormIdle == n_pc = "idle" /\ n_in = NaN /\ n_out = NaN /\ n_out2 = NaN

ParseIdle ==
    /\ p_pc = "idle" /\ p_in = NaN /\ p_tol = NoDate
    /\ p_out = Absent(<<>>, FALSE) /\ p_iso = <<>>

MainIdle ==
    /\ pc = "idle" /\ exists = FALSE /\ enc_guess = NoneEnc /\ decodable = {}
    /\ file = NoTable /\ i = 0 /\ attempts = <<>> /\ errs = <<>>
    /\ last_err = NoErr /\ df = NoTable /\ loaded = NoTable
    /\ start_parsed = <<>> /\ end_parsed = <<>>
    /\ unparsable_start = 0 /\ unparsable_end = 0
    /\ raised = NoErr /\ out_file = NoTable

\* a missing file has no encoding and no content; a file no encoding parses
\* yields no table
Init ==
    /\ pc = "start"
    /\ exists \in BOOLEAN
    /\ enc_guess \in (IF exists THEN Guesses ELSE {NoneEnc})
    /\ decodable \in
         (IF exists
          THEN SUBSET ((Range(FixedEncodings) \cup {enc_guess, DEFAULT}) \ {NoneEnc})
          ELSE {{}})
    /\ file \in (IF decodable = {} THEN {NoTable} ELSE Files)
    /\ i = 0 /\ attempts = <<>> /\ errs = <<>>
    /\ last_err = NoErr /\ df = NoTable /\ loaded = NoTable
    /\ start_parsed = <<>> /\ end_parsed = <<>>
    /\ unparsable_start = 0 /\ unparsable_end = 0
    /\ raised = NoErr /\ out_file = NoTable
    /\ NormIdle /\ ParseIdle

\* a slip that would try the detected encoding after the fixed ones
candidate_list_guess_last(guess) ==
    SelectSeq(FixedEncodings \o <<guess>>, LAMBDA e : e # NoneEnc)

\* lines 67 and 71: [e for e in [enc_guess, "utf-8-sig", ...] if e]
candidate_list(guess) ==
    SelectSeq(<<guess>> \o FixedEncodings, LAMBDA e : e # NoneEnc)

\* lines 63-69
CheckInput ==
    /\ pc = "start"
    /\ IF ~exists
       THEN /\ raised' = FileNotFoundError
            /\ pc' = "aborted"
            /\ i' = i
       ELSE /\ raised' = raised
            /\ pc' = "resolve"
            /\ i' = 1
    /\ UNCHANGED <<exists, enc_guess, decodable, file, attempts, errs, last_err,
                   df, loaded, start_parsed, end_parsed, unparsable_start,
                   unparsable_end, out_file>>
    /\ UNCHANGED <<norm_vars, parse_vars>>

\* lines 71-78, one turn of the loop: read_csv with the next candidate; a
\* success leaves the loop, a failure is kept in last_err
TryEncoding ==
    /\ pc = "resolve"
    /\ LET cands == candidate_list(enc_guess)
           enc == cands[i]
           e == ReadError(enc, Len(attempts) + 1)
       IN /\ attempts' = Append(attempts, enc)
          /\ IF enc \in decodable
             THEN /\ df' = file
                  /\ loaded' = file
                  /\ pc' = "normalize"
                  /\ UNCHANGED <<i, last_err, errs>>
             ELSE /\ last_err' = e
                  /\ errs' = Append(errs, e)
                  /\ i' = i + 1
                  /\ pc' = IF i = Len(cands) THEN "default" ELSE "resolve"
                  /\ UNCHANGED <<df, loaded>>
    /\ UNCHANGED <<exists, enc_guess, decodable, file, start_parsed, end_parsed,
                   unparsable_start, unparsable_end, raised, out_file>>
    /\ UNCHANGED <<norm_vars, parse_vars>>

\* a slip that would let the default attempt's own exception through
reraised_caught(last, caught) == caught

\* line 86, raise last_err inside "except Exception": what main() raises when
\* the default attempt throws caught
reraised(last, caught) == last

\* lines 80-86: df is still None, read_csv without an encoding
DefaultAttempt ==
    /\ pc = "default"
    /\ attempts' = Append(attempts, DEFAULT)
    /\ IF DEFAULT \in decodable
       THEN /\ df' = file
            /\ loaded' = file
            /\ pc' = "normalize"
            /\ UNCHANGED <<errs, raised>>
       ELSE /\ errs' = Append(errs, ReadError(DEFAULT, Len(attempts) + 1))
            /\ raised' = reraised(last_err, ReadError(DEFAULT, Len(attempts) + 1))
            /\ pc' = "aborted"
            /\ UNCHANGED <<df, loaded>>
    /\ UNCHANGED <<exists, enc_guess, decodable, file, i, last_err, start_parsed,
                   end_parsed, unparsable_start, unparsable_end, out_file>>
    /\ UNCHANGED <<norm_vars, parse_vars>>

\* lines 89-92
NormalizeText ==
    /\ pc = "normalize"
    /\ df' = normalize_text(df)
    /\ pc' = "dates"
    /\ UNCHANGED <<exists, enc_guess, decodable, file, i, attempts, errs,
                   last_err, loaded, start_parsed, end_parsed, unparsable_start,
                   unparsable_end, raised, out_file>>
    /\ UNCHANGED <<norm_vars, parse_vars>>

REQUIRED == <<"start_date", "end_date">>

\* a slip that would name every required column once one is missing
missing_required_all(t) ==
    IF \E k \in 1..Len(REQUIRED) : REQUIRED[k] \notin Range(t.cols)
    THEN REQUIRED ELSE <<>>

\* line 96: [c for c in required if c not in df.columns]
missing_required(t) == SelectSeq(REQUIRED, LAMBDA c : c \notin Range(t.cols))

\* lines 95-104
DateStandardize ==
    /\ pc = "dates"
    /\ IF missing_required(df) # <<>>
       THEN /\ raised' = MissingColumnError(missing_required(df))
            /\ pc' = "aborted"
            /\ UNCHANGED <<df, start_parsed, end_parsed>>
       ELSE \E tol \in [fallback_texts(df.data["start_date"])
                          \cup fallback_texts(df.data["end_date"])
                        -> MainTolerantAnswers] :
            /\ start_parsed' = parse_column(df.data["start_date"], tol)
            /\ end_parsed' = parse_column(df.data["end_date"], tol)
            /\ df' = set_col(set_col(df, "start_date_iso", iso_column(start_parsed')),
                             "end_date_iso", iso_column(end_parsed'))
            /\ pc' = "diagnostics"
            /\ raised' = raised
    /\ UNCHANGED <<exists, enc_guess, decodable, file, i, attempts, errs,
                   last_err, loaded, unparsable_start, unparsable_end, out_file>>
    /\ UNCHANGED <<norm_vars, parse_vars>>

\* a slip that would export before validating: the to_csv call of line 123
\* moved above the checks
Diagnostics_export_first ==
    /\ pc = "diagnostics"
    /\ unparsable_start' = unparsable_count(start_parsed, df.data["start_date"])
    /\ unparsable_end' = unparsable_count(end_parsed, df.data["end_date"])
    /\ out_file' = df
    /\ \E accessor_fails \in str_accessor_may_fail(df) :
       IF accessor_fails
       THEN /\ raised' = StrAccessorError
            /\ pc' = "aborted"
       ELSE IF "event_id" \notin Range(df.cols)
       THEN /\ raised' = NotInIndexError(<<"event_id">>)
            /\ pc' = "aborted"
       ELSE IF bad_iso_rows(df, "start_date_iso") # {}
               \/ bad_iso_rows(df, "end_date_iso") # {}
       THEN /\ raised' = ISOCheckError
            /\ pc' = "aborted"
       ELSE /\ raised' = raised
            /\ pc' = "done"
    /\ UNCHANGED <<exists, enc_guess, decodable, file, i, attempts, errs,
                   last_err, df, loaded, start_parsed, end_parsed>>
    /\ UNCHANGED <<norm_vars, parse_vars>>

\* lines 107-120
Diagnostics ==
    /\ pc = "diagnostics"
    /\ unparsable_start' = unparsable_count(start_parsed, df.data["start_date"])
    /\ unparsable_end' = unparsable_count(end_parsed, df.data["end_date"])
    /\ \E accessor_fails \in str_accessor_may_fail(df) :
       IF accessor_fails
       THEN /\ raised' = StrAccessorError
            /\ pc' = "aborted"
       ELSE IF "event_id" \notin Range(df.cols)
       THEN /\ raised' = NotInIndexError(<<"event_id">>)
            /\ pc' = "aborted"
       ELSE IF bad_iso_rows(df, "start_date_iso") # {}
               \/ bad_iso_rows(df, "end_date_iso") # {}
       THEN /\ raised' = ISOCheckError
            /\ pc' = "aborted"
       ELSE /\ raised' = raised
            /\ pc' = "export"
    /\ UNCHANGED <<exists, enc_guess, decodable, file, i, attempts, errs,
                   last_err, df, loaded, start_parsed, end_parsed, out_file>>
    /\ UNCHANGED <<norm_vars, parse_vars>>

\* line 123
Export ==
    /\ pc = "export"
    /\ out_file' = df
    /\ pc' = "done"
    /\ UNCHANGED <<exists, enc_guess, decodable, file, i, attempts, errs,
                   last_err, df, loaded, start_parsed, end_parsed,
                   unparsable_start, unparsable_end, raised>>
    /\ UNCHANGED <<norm_vars, parse_vars>>

Next ==
    \/ CheckInput
    \/ TryEncoding
    \/ DefaultAttempt
    \/ NormalizeText
    \/ DateStandardize
    \/ Diagnostics
    \/ Export

Spec == Init /\ [][Next]_vars

\* ------------------------------------------------------------------------
\* remove_diacritics on every text of at most MaxLen characters
\* ------------------------------------------------------------------------

InitNorm ==
    /\ MainIdle /\ ParseIdle
    /\ n_pc = "input"
    /\ n_in \in NormInputs
    /\ n_out = NaN
    /\ n_out2 = NaN

NormOnce ==
    /\ n_pc = "input"
    /\ n_out' = remove_diacritics(n_in)
    /\ n_pc' = "once"
    /\ UNCHANGED <<n_in, n_out2, main_vars, parse_vars>>

NormTwice ==
    /\ n_pc = "once"
    /\ n_out2' = remove_diacritics(n_out)
    /\ n_pc' = "twice"
    /\ UNCHANGED <<n_in, n_out, main_vars, parse_vars>>

NextNorm == NormOnce \/ NormTwice

SpecNorm == InitNorm /\ [][NextNorm]_vars

\* ------------------------------------------------------------------------
\* parse_date_ddmmy on the cell values of ParseInputs, then rendered
\* ------------------------------------------------------------------------

InitParse ==
    /\ MainIdle /\ NormIdle
    /\ p_pc = "input"
    /\ p_in \in ParseInputs
    /\ p_tol \in TolerantAnswers
    /\ p_out = Absent(<<>>, FALSE)
    /\ p_iso = <<>>

ParseCall ==
    /\ p_pc = "input"
    /\ p_out' = parse_trace(p_in, p_tol)
    /\ p_pc' = "parsed"
    /\ UNCHANGED <<p_in, p_tol, p_iso, main_vars, norm_vars>>

RenderCall ==
    /\ p_pc = "parsed"
    /\ p_iso' = render_iso(p_out.result)
    /\ p_pc' = "rendered"
    /\ UNCHANGED <<p_in, p_tol, p_out, main_vars, norm_vars>>

NextParse == ParseCall \/ RenderCall

SpecParse == InitParse /\ [][NextParse]_vars

\* ------------------------------------------------------------------------
\* Properties
\* ------------------------------------------------------------------------

\* main() has read the file into a table
Loaded == loaded # NoTable

\* the text normalisation of lines 89-92 has run
Normalized ==
    \/ pc \in {"dates", "diagnostics", "export", "done"}
    \/ pc = "aborted" /\ Loaded

\* the date columns have been parsed and the ISO columns set (lines 100-104)
IsoAdded ==
    \/ pc \in {"diagnostics", "export", "done"}
    \/ pc = "aborted" /\ raised.kind \in {"AttributeError", "KeyError: not in index", "ValueError"}

\* the counts of lines 107-108 have been reported (line 113)
Counted ==
    \/ pc \in {"export", "done"}
    \/ pc = "aborted" /\ raised.kind = "ValueError"

IsoNames == <<"start_date_iso", "end_date_iso">>

\* the candidate encodings in the order of the list of line 67, then the
\* attempt without an encoding
ExpectedAttempts ==
    (IF enc_guess = NoneEnc THEN <<>> ELSE <<enc_guess>>)
        \o <<"utf-8-sig", "utf-8", "latin1", "windows-1252">> \o <<DEFAULT>>

\* C1: the read_csv calls made so far are the first ones of [guess if any,
\* utf-8-sig, utf-8, latin1, windows-1252, default], in that order and with a
\* repeated guess not removed; every call but the last one made has failed
\* (nothing is tried after a success, the default only after all candidates
\* failed); the table is loaded exactly when the last call made succeeded; the
\* resolution ends only loaded or with every attempt made; and with no guess
\* and a file that parses under latin1 alone the calls are exactly utf-8-sig,
\* utf-8, latin1 and the table is loaded.
C1_OrderedFallback ==
    /\ Len(attempts) <= Len(ExpectedAttempts)
    /\ \A k \in 1..Len(attempts) : attempts[k] = ExpectedAttempts[k]
    /\ \A k \in 1..(Len(attempts) - 1) : attempts[k] \notin decodable
    /\ Loaded <=> (attempts # <<>> /\ attempts[Len(attempts)] \in decodable)
    /\ Loaded => loaded = file
    /\ pc \in {"normalize", "dates", "diagnostics", "export", "done"} => Loaded
    /\ (pc = "aborted" /\ exists /\ ~Loaded) => attempts = ExpectedAttempts
    /\ (/\ enc_guess = NoneEnc
        /\ decodable = {"latin1"}
        /\ pc \notin {"start", "resolve", "default"})
       => (attempts = <<"utf-8-sig", "utf-8", "latin1">> /\ Loaded)

\* a run whose detector abstained and whose file parses under latin1 alone,
\* loaded by the third call
C1_Witness ==
    /\ pc = "done"
    /\ enc_guess = NoneEnc
    /\ decodable = {"latin1"}
    /\ attempts = <<"utf-8-sig", "utf-8", "latin1">>

\* C2 as stated: when every attempt failed, main() raises the exception
\* encountered last, the one of the attempt without an encoding.
C2_RaisesLastEncountered ==
    (pc = "aborted" /\ raised.kind = "ReadError") => raised = errs[Len(errs)]

\* C2 amended: when the file exists and no attempt parsed it, every attempt
\* has failed, main() aborts, and what it raises is the exception of the last
\* listed candidate, windows-1252: the last one the loop recorded, not the
\* later one of the default attempt.
C2_RaisesLastCandidateError ==
    (pc = "aborted" /\ exists /\ ~Loaded) =>
        /\ Len(errs) = Len(attempts)
        /\ \A k \in 1..Len(errs) : errs[k] = ReadError(attempts[k], k)
        /\ raised = errs[Len(errs) - 1]
        /\ raised.enc = "windows-1252"
        /\ errs[Len(errs)].enc = DEFAULT
        /\ out_file = NoTable

\* all six attempts of a run with a detected encoding failed
C2_Witness ==
    /\ pc = "aborted"
    /\ Len(errs) = 6
    /\ raised = ReadError("windows-1252", 5)

\* the canonical shape: four digits, "-", two digits, "-", two digits
CanonicalIso(t) ==
    /\ Len(t) = 10
    /\ \A k \in {1, 2, 3, 4, 6, 7, 9, 10} : isdigit(t[k])
    /\ t[5] = "-" /\ t[8] = "-"

IsoCellOk(v) == v = Str(<<>>) \/ (v.tag = "str" /\ CanonicalIso(v.s))

IsoColumnsOk(t) ==
    \A c \in Range(IsoNames) : \A k \in 1..Len(t.data[c]) : IsoCellOk(t.data[c][k])

\* C3: the output file exists only in a run that raised nothing, got past the
\* validation and ended; a run that ended in an error (file not found, no
\* encoding parses, a required column missing, a failure inside the
\* diagnostics, an ISO string off the pattern) has written nothing.
C3_NoOutputOnError ==
    /\ out_file # NoTable => (pc = "done" /\ raised = NoErr /\ IsoColumnsOk(out_file))
    /\ pc = "aborted" => (raised # NoErr /\ out_file = NoTable)
    /\ raised # NoErr => (pc = "aborted" /\ out_file = NoTable)

\* a run aborted after the ISO columns were computed, nothing written
C3_Witness ==
    /\ pc = "aborted"
    /\ raised = NotInIndexError(<<"event_id">>)
    /\ n_rows(df) > 0
    /\ out_file = NoTable

\* C4 as stated: after load every column of the input keeps its cells through
\* the text normalisation, the date normalisation and the validation.
C4_OriginalColumnsUntouched ==
    Loaded =>
        \A c \in Range(loaded.cols) :
            c \in Range(df.cols) /\ df.data[c] = loaded.data[c]

\* the ISO columns that are new to the table, in order
NewIsoNames == SelectSeq(IsoNames, LAMBDA c : c \notin Range(loaded.cols))

\* C4 amended: the text normalisation replaces every cell of the loaded
\* columns by its remove_diacritics form (which changes text cells only);
\* after it the date normalisation and the validation change no cell of a
\* loaded column, except that an input column named start_date_iso or
\* end_date_iso is overwritten in place by the ISO strings; the ISO columns
\* the input does not have are appended after the loaded ones; and the file
\* written is that table.
C4_OnlyNormalizedAndIsoColumns ==
    /\ (Loaded /\ ~Normalized) => df = loaded
    /\ Normalized =>
          \A c \in Range(loaded.cols) :
              (IsoAdded /\ c \in Range(IsoNames))
              \/ /\ c \in Range(df.cols)
                 /\ Len(df.data[c]) = Len(loaded.data[c])
                 /\ \A k \in 1..Len(loaded.data[c]) :
                       /\ df.data[c][k] = remove_diacritics(loaded.data[c][k])
                       /\ ~isinstance_str(loaded.data[c][k])
                             => df.data[c][k] = loaded.data[c][k]
    /\ (Normalized /\ ~IsoAdded) => df.cols = loaded.cols
    /\ IsoAdded =>
          /\ df.cols = loaded.cols \o NewIsoNames
          /\ df.data["start_date_iso"] =
                [k \in 1..Len(start_parsed) |-> Str(render_iso(start_parsed[k]))]
          /\ df.data["end_date_iso"] =
                [k \in 1..Len(end_parsed) |-> Str(render_iso(end_parsed[k]))]
    /\ out_file # NoTable => out_file = df

\* a finished run whose input had a start_date_iso column and a text cell the
\* normalisation changed
C4_Witness ==
    /\ pc = "done"
    /\ "start_date_iso" \in Range(loaded.cols)
    /\ df.data["start_date_iso"] # loaded.data["start_date_iso"]
    /\ df.data["start_date"] # loaded.data["start_date"]
    /\ df.cols = loaded.cols \o <<"end_date_iso">>

\* a raw value that is legitimately blank: missing, or empty once trimmed
BlankRaw(v) == v.tag \in {"nan", "none"} \/ (v.tag = "str" /\ strip(v.s) = <<>>)

AbsentRequired ==
    IF "start_date" \notin Range(loaded.cols) /\ "end_date" \notin Range(loaded.cols)
    THEN <<"start_date", "end_date">>
    ELSE IF "start_date" \notin Range(loaded.cols) THEN <<"start_date">>
    ELSE IF "end_date" \notin Range(loaded.cols) THEN <<"end_date">>
    ELSE <<>>

\* C6: once the date stage has run on a table that lacks a required date
\* column, main() has aborted with the missing-column error naming exactly the
\* absent required columns in required order; and that error is raised in no
\* other case.
C6_MissingColumnsNamed ==
    /\ (Loaded /\ pc \notin {"normalize", "dates"} /\ AbsentRequired # <<>>)
          => (pc = "aborted" /\ raised = MissingColumnError(AbsentRequired))
    /\ raised.kind = "KeyError"
          => (AbsentRequired # <<>> /\ raised.missing = AbsentRequired)

\* a table with start_date and without end_date
C6_Witness ==
    /\ pc = "aborted"
    /\ "start_date" \in Range(loaded.cols)
    /\ raised = MissingColumnError(<<"end_date">>)

\* the value is null or, once trimmed, empty or one of nan / none / null
BlankLike(v) ==
    \/ v = PyNone
    \/ strip(str(v)) = <<>>
    \/ lower(strip(str(v))) \in Sentinels

\* C7: parse_date_ddmmy answers absent, trying no parser, for a null or blank
\* or nan/none/null value; otherwise it tries DD/MM/YY first and DD/MM/YYYY
\* only if that failed, answers the first success, and calls the tolerant
\* parser only when both failed, answering what that one answers.  "05/03/24"
\* and "05/03/2024" give 2024-03-05; "", "NaN" and None give absent, rendered
\* as the empty text.
C7_ParseOrder ==
    p_pc \in {"parsed", "rendered"} =>
        LET s == strip(str(p_in))
            yy == strptime(s, 2)
            yyyy == strptime(s, 4)
        IN /\ BlankLike(p_in) => p_out = Absent(<<>>, FALSE)
           /\ (~BlankLike(p_in) /\ yy # NoDate) =>
                 p_out = [result |-> yy, tried |-> <<FMT_YY>>, fallback |-> FALSE]
           /\ (~BlankLike(p_in) /\ yy = NoDate /\ yyyy # NoDate) =>
                 p_out = [result |-> yyyy, tried |-> <<FMT_YY, FMT_YYYY>>,
                          fallback |-> FALSE]
           /\ (~BlankLike(p_in) /\ yy = NoDate /\ yyyy = NoDate) =>
                 p_out = [result |-> p_tol, tried |-> <<FMT_YY, FMT_YYYY>>,
                          fallback |-> TRUE]
           /\ p_in \in {Str(T_050324), Str(T_05032024)} =>
                 (p_out.result = Date(2024, 3, 5) /\ ~p_out.fallback)
           /\ p_in \in {Str(<<>>), Str(<<"N", "a", "N">>), PyNone} =>
                 /\ p_out.result = NoDate
                 /\ p_pc = "rendered" => p_iso = <<>>
           /\ (p_pc = "rendered" /\ p_out.result = Date(2024, 3, 5)) => p_iso = T_ISO

\* "05/03/2024" parsed by the second strict format and rendered
C7_Witness ==
    /\ p_pc = "rendered"
    /\ p_in = Str(T_05032024)
    /\ p_out = [result |-> Date(2024, 3, 5), tried |-> <<FMT_YY, FMT_YYYY>>,
                fallback |-> FALSE]
    /\ p_iso = T_ISO

\* C8: every ISO string main() produces, and so every one of a table that
\* reaches the export and of the file written, is empty or of the canonical
\* shape YYYY-MM-DD.
C8_IsoShape ==
    /\ IsoAdded => IsoColumnsOk(df)
    /\ out_file # NoTable => IsoColumnsOk(out_file)

\* a written file with a dated and an undated row
C8_Witness ==
    /\ pc = "done"
    /\ \E k \in 1..n_rows(out_file) : out_file.data["start_date_iso"][k] = Str(T_ISO)
    /\ \E k \in 1..n_rows(out_file) : out_file.data["end_date_iso"][k] = Str(<<>>)

AllColumnsHave(t, n) ==
    /\ \A k \in 1..Len(t.cols) : t.cols[k] \in DOMAIN t.data
    /\ \A c \in DOMAIN t.data : Len(t.data[c]) = n

\* C9: a table loaded with N rows has N rows in every column after the text
\* normalisation, after the date normalisation and after the validation, the
\* parsed series have N entries, and the file written has N rows.
C9_RowCountKept ==
    Loaded =>
        /\ AllColumnsHave(df, n_rows(loaded))
        /\ IsoAdded =>
              /\ Len(start_parsed) = n_rows(loaded)
              /\ Len(end_parsed) = n_rows(loaded)
              /\ \A c \in Range(IsoNames) : c \in DOMAIN df.data
        /\ out_file # NoTable => AllColumnsHave(out_file, n_rows(loaded))

\* a written file of two rows, one of them without a start date
C9_Witness ==
    /\ pc = "done"
    /\ n_rows(loaded) = 2
    /\ n_rows(out_file) = 2
    /\ \E k \in 1..2 : start_parsed[k] = NoDate
    /\ \E k \in 1..2 : start_parsed[k] # NoDate

\* a combining mark in Unicode's sense: general category Mn, Mc or Me
is_mark(c) == c \in {"COMBINING_ACUTE", "COMBINING_DIAERESIS", "ENCLOSING_CIRCLE"}

NoMarks(t) == \A k \in 1..Len(t) : ~is_mark(t[k])

NoCombining(t) == \A k \in 1..Len(t) : combining(t[k]) = 0

SingleSpaced(t) ==
    /\ \A k \in 1..Len(t) : isspace(t[k]) => t[k] = " "
    /\ t # <<>> => (~isspace(t[1]) /\ ~isspace(t[Len(t)]))
    /\ \A k \in 1..(Len(t) - 1) : ~(isspace(t[k]) /\ isspace(t[k + 1]))

\* C10 as stated: applied to a text, remove_diacritics gives a text without
\* any combining mark, without whitespace at either end and with no whitespace
\* but single spaces, and applying it again changes nothing; a value that is
\* not a text comes back as it is.
C10_NoMarkLeft ==
    /\ n_pc \in {"once", "twice"} =>
          IF isinstance_str(n_in)
          THEN /\ isinstance_str(n_out)
               /\ NoMarks(n_out.s)
               /\ SingleSpaced(n_out.s)
          ELSE n_out = n_in
    /\ n_pc = "twice" => n_out2 = n_out

\* C10 amended: applied to a text, remove_diacritics gives a text without a
\* character of non-zero canonical combining class (a mark of class 0, such as
\* an enclosing mark, stays), without whitespace at either end and with no
\* whitespace but single spaces, and applying it again changes nothing; a
\* value that is not a text comes back as it is.
C10_NormalizerContract ==
    /\ n_pc \in {"once", "twice"} =>
          IF isinstance_str(n_in)
          THEN /\ isinstance_str(n_out)
               /\ NoCombining(n_out.s)
               /\ SingleSpaced(n_out.s)
          ELSE n_out = n_in
    /\ n_pc = "twice" => n_out2 = n_out

\* an accented letter between whitespace, normalised twice
C10_Witness ==
    /\ n_pc = "twice"
    /\ n_in = Str(<<"NBSP", "E_ACUTE", "TAB">>)
    /\ n_out = Str(<<"E">>)
    /\ n_out2 = n_out

====
